---- MODULE Spec2Model ----
(***************************************************************************)
(* Verification model of ox_ui: the advisory file lock of                  *)
(* ox_ui/core/decorators.py and the click-to-form adapters of              *)
(* ox_ui/core/c2f.py (ClickToWTF) and ox_ui/core/c2g.py (ClickToGeneric).  *)
(***************************************************************************)
EXTENDS Integers, Sequences, FiniteSets, TLC

(***************************************************************************)
(* PART 1.  LockFile (decorators.py:275-344)                               *)
(*                                                                         *)
(* Callers are threads that each run `with LockFile(lockpath): body`.      *)
(* Every file-system call of __enter__ and __exit__ is one atomic step;    *)
(* the steps of different callers interleave freely.                       *)
(***************************************************************************)

\* number of concurrent callers of LockFile on the same path
NCallers == 2
\* how many times one caller runs the with-statement
MaxAttempts == 2

Callers == 1..NCallers

lockpath == "/tmp/test.lock"

\* content of a marker file that was opened for writing and not yet written
EmptyData == 0

VARIABLES
    lockfile,    \* the marker file: [exists, ino, data]
    next_ino,    \* next inode number the file system hands out
    pc,          \* per caller: position inside the with-statement
    fd_ino,      \* per caller: inode its open write descriptor points to
    info,        \* per caller: local variable `info` of __enter__
    body_exc,    \* per caller: did the body of the with-statement raise
    outcome,     \* per caller: how its last with-statement ended
    attempts     \* per caller: with-statements started so far

lock_vars == <<lockfile, next_ino, pc, fd_ino, info, body_exc, outcome, attempts>>

VARIABLES
    adapter,        \* "wtf" (ClickToWTF) or "generic" (ClickToGeneric)
    clickCmd,       \* self.clickCmd / self.click_cmd: the option descriptors
    skip_opt_re,    \* self.skip_opt_re
    tweaks,         \* self.tweaks
    gobbled_opts,   \* self.gobbled_opts: name -> reason
    phase,          \* "ready", "pending" while a request awaits its handler,
                    \* "answered" once handle_request has returned or raised
    request,        \* the request being handled: method, form data, opts
    form,           \* the form of the last handle_request: name -> field
    callback_calls, \* the callback's invocations in the last handle_request
    response        \* what the last handle_request gave its caller

VARIABLES
    fill_get_from_url, \* self.fill_get_from_url (ClickToWTF only)
    callback,       \* clickCmd.callback: how many watched wrappers lie around
                    \* the original function
    buffers,        \* per tweak: self.buffer, the buffer it last injected
    trace,          \* what the last handle_request did, in order: fields
                    \* built, tweak steps, watch records
    gobble_log,     \* the calls of tweak.gobble the last handle_request
                    \* made, in order: tweak, name, answer
    earlier         \* what went before on this adapter: was a field set
                    \* built, and the names earlier calls gave a value for
                    \* (kept up to date in SequenceSpec only)

config_vars == <<adapter, clickCmd, skip_opt_re, tweaks, fill_get_from_url, callback>>

\* the configuration but for the option descriptors
setup_vars == <<adapter, skip_opt_re, tweaks, fill_get_from_url, callback>>

adapter_vars == <<config_vars, gobbled_opts, phase, request, form,
                  callback_calls, response, buffers, trace, gobble_log, earlier>>

VARIABLES
    w_log,       \* the records the logger of a watched function has received
    w_outcome    \* per call of the watched function: what its caller got

watch_vars == <<w_log, w_outcome>>

VARIABLES
    timeout,     \* run_cmd's timeout argument
    proc,        \* the subprocess.Popen object and the process behind it
    elapsed,     \* seconds since proc.wait was called
    run_pc,      \* position inside run_cmd
    run_result,  \* run_cmd's local variable `result`
    run_outcome  \* how run_cmd ended

run_vars == <<timeout, proc, elapsed, run_pc, run_result, run_outcome>>

vars == <<lock_vars, adapter_vars, watch_vars, run_vars>>

\* what each part of the model leaves alone
other_than_lock == <<adapter_vars, watch_vars, run_vars>>
other_than_adapter == <<lock_vars, watch_vars, run_vars>>
other_than_watch == <<lock_vars, adapter_vars, run_vars>>
other_than_run == <<lock_vars, adapter_vars, watch_vars>>

NoOutcome == [exc |-> "none", arg |-> ""]
Returned == [exc |-> "returned", arg |-> ""]
BodyError == [exc |-> "BodyError", arg |-> ""]
FileExistsError(path) == [exc |-> "FileExistsError", arg |-> path]
FileNotFoundError(path) == [exc |-> "FileNotFoundError", arg |-> path]
JSONDecodeError(path) == [exc |-> "JSONDecodeError", arg |-> path]

\* `info` before __enter__ has assigned it
NoInfo == [state |-> "none", data |-> EmptyData]

LockInit ==
    /\ lockfile = [exists |-> FALSE, ino |-> 0, data |-> EmptyData]
    /\ next_ino = 1
    /\ pc = [t \in Callers |-> "idle"]
    /\ fd_ino = [t \in Callers |-> 0]
    /\ info = [t \in Callers |-> NoInfo]
    /\ body_exc = [t \in Callers |-> FALSE]
    /\ outcome = [t \in Callers |-> NoOutcome]
    /\ attempts = [t \in Callers |-> 0]

\* __enter__, line 319: os.path.exists(self.lockpath)
EnterExists(t) ==
    /\ UNCHANGED other_than_lock
    /\ pc[t] \in {"idle", "done", "failed"}
    /\ attempts[t] < MaxAttempts
    /\ attempts' = [attempts EXCEPT ![t] = @ + 1]
    /\ pc' = [pc EXCEPT ![t] = IF lockfile.exists THEN "enter_read" ELSE "enter_open"]
    /\ info' = [info EXCEPT ![t] = NoInfo]
    /\ body_exc' = [body_exc EXCEPT ![t] = FALSE]
    /\ outcome' = [outcome EXCEPT ![t] = NoOutcome]
    /\ UNCHANGED <<lockfile, next_ino, fd_ino>>

\* what json.load of the marker yields: the stored info, or "unknown" when
\* the file vanished meanwhile or holds no JSON document (lines 320-328)
ReadInfo ==
    IF lockfile.exists /\ lockfile.data # EmptyData
    THEN [state |-> "loaded", data |-> lockfile.data]
    ELSE [state |-> "unknown", data |-> EmptyData]

\* variant: only a missing file is tolerated, a parse error escapes
EnterReadInfoNarrowExcept(t) ==
    /\ UNCHANGED other_than_lock
    /\ pc[t] = "enter_read"
    /\ info' = [info EXCEPT ![t] = ReadInfo]
    /\ outcome' = [outcome EXCEPT ![t] =
            IF lockfile.exists /\ lockfile.data = EmptyData
            THEN JSONDecodeError(lockpath) ELSE FileExistsError(lockpath)]
    /\ pc' = [pc EXCEPT ![t] = "failed"]
    /\ UNCHANGED <<lockfile, next_ino, fd_ino, body_exc, attempts>>

\* __enter__, lines 320-329: best-effort read of the marker, any exception
\* of the read is swallowed, then raise FileExistsError(self.lockpath)
EnterReadInfo(t) ==
    /\ UNCHANGED other_than_lock
    /\ pc[t] = "enter_read"
    /\ info' = [info EXCEPT ![t] = ReadInfo]
    /\ outcome' = [outcome EXCEPT ![t] = FileExistsError(lockpath)]
    /\ pc' = [pc EXCEPT ![t] = "failed"]
    /\ UNCHANGED <<lockfile, next_ino, fd_ino, body_exc, attempts>>

\* __enter__, line 330: open(self.lockpath, 'w') creates the file or
\* truncates the existing one; it never fails because the file exists
EnterOpen(t) ==
    /\ UNCHANGED other_than_lock
    /\ pc[t] = "enter_open"
    /\ IF lockfile.exists
       THEN /\ lockfile' = [lockfile EXCEPT !.data = EmptyData]
            /\ fd_ino' = [fd_ino EXCEPT ![t] = lockfile.ino]
            /\ UNCHANGED next_ino
       ELSE /\ lockfile' = [exists |-> TRUE, ino |-> next_ino, data |-> EmptyData]
            /\ fd_ino' = [fd_ino EXCEPT ![t] = next_ino]
            /\ next_ino' = next_ino + 1
    /\ pc' = [pc EXCEPT ![t] = "enter_dump"]
    /\ UNCHANGED <<info, body_exc, outcome, attempts>>

\* __enter__, lines 331-337: json.dump(info, fdesc), close, return self.
\* The write goes to the inode the descriptor was opened on; leaving the
\* inner with-statement closes the descriptor.
EnterDump(t) ==
    /\ UNCHANGED other_than_lock
    /\ pc[t] = "enter_dump"
    /\ lockfile' = IF lockfile.exists /\ lockfile.ino = fd_ino[t]
                   THEN [lockfile EXCEPT !.data = t] ELSE lockfile
    /\ fd_ino' = [fd_ino EXCEPT ![t] = 0]
    /\ pc' = [pc EXCEPT ![t] = "body"]
    /\ UNCHANGED <<next_ino, info, body_exc, outcome, attempts>>

\* the body of the with-statement returns or raises; __exit__ starts
Body(t) ==
    /\ UNCHANGED other_than_lock
    /\ pc[t] = "body"
    /\ \E raises \in BOOLEAN : body_exc' = [body_exc EXCEPT ![t] = raises]
    /\ pc' = [pc EXCEPT ![t] = "exit_exists"]
    /\ UNCHANGED <<lockfile, next_ino, fd_ino, info, outcome, attempts>>

\* what the with-statement yields when __exit__ returns False (line 344)
ExitOutcome(t) == IF body_exc[t] THEN BodyError ELSE Returned

\* __exit__ -> remove_lock, line 315: os.path.exists(self.lockpath)
ExitExists(t) ==
    /\ UNCHANGED other_than_lock
    /\ pc[t] = "exit_exists"
    /\ IF lockfile.exists
       THEN /\ pc' = [pc EXCEPT ![t] = "exit_remove"]
            /\ UNCHANGED outcome
       ELSE /\ pc' = [pc EXCEPT ![t] = "done"]
            /\ outcome' = [outcome EXCEPT ![t] = ExitOutcome(t)]
    /\ UNCHANGED <<lockfile, next_ino, fd_ino, info, body_exc, attempts>>

\* __exit__ -> remove_lock, line 316: os.remove(self.lockpath)
ExitRemove(t) ==
    /\ UNCHANGED other_than_lock
    /\ pc[t] = "exit_remove"
    /\ IF lockfile.exists
       THEN /\ lockfile' = [lockfile EXCEPT !.exists = FALSE]
            /\ outcome' = [outcome EXCEPT ![t] = ExitOutcome(t)]
       ELSE /\ UNCHANGED lockfile
            /\ outcome' = [outcome EXCEPT ![t] = FileNotFoundError(lockpath)]
    /\ pc' = [pc EXCEPT ![t] = "done"]
    /\ UNCHANGED <<next_ino, fd_ino, info, body_exc, attempts>>

LockNext ==
    \E t \in Callers :
        \/ EnterExists(t)
        \/ EnterReadInfo(t)
        \/ EnterOpen(t)
        \/ EnterDump(t)
        \/ Body(t)
        \/ ExitExists(t)
        \/ ExitRemove(t)

(***************************************************************************)
(* PART 2.  Values, options, commands, tweaks                              *)
(***************************************************************************)

\* how many times one field name is submitted in a form submission
MaxSubmit == 3

\* Python values handed around by the adapters.  Text is a sequence of
\* one-character strings, so that int() can be computed on it.
NoneV == [kind |-> "none", n |-> 0, s |-> <<>>, items |-> <<>>, name |-> "", bytes |-> <<>>]
IntV(n) == [kind |-> "int", n |-> n, s |-> <<>>, items |-> <<>>, name |-> "", bytes |-> <<>>]
StrV(s) == [kind |-> "str", n |-> 0, s |-> s, items |-> <<>>, name |-> "", bytes |-> <<>>]
BoolV(b) == [kind |-> "bool", n |-> IF b THEN 1 ELSE 0, s |-> <<>>, items |-> <<>>, name |-> "", bytes |-> <<>>]
ListV(items) == [kind |-> "list", n |-> 0, s |-> <<>>, items |-> items, name |-> "", bytes |-> <<>>]

T_3 == <<"3">>
T_bad == <<"b", "a", "d">>
T_bye == <<"b", "y", "e">>
T_hi == <<"h", "i">>
T_them == <<"t", "h", "e", "m">>
T_you == <<"y", "o", "u">>
T_data == <<"d", "a", "t", "a">>
T_empty == <<>>

\* the values submitted k times under one field name: "a", "b", "c", ...
Alphabet == <<"a", "b", "c", "d", "e", "f">>
Repeated(k) == [i \in 1..k |-> <<Alphabet[i]>>]

\* a click option descriptor (click.Option: name, type, default, required,
\* multiple)
Opt(name, type, default, required, multiple) ==
    [name |-> name, type |-> type, default |-> default,
     required |-> required, multiple |-> multiple]

opt_count == Opt("count", "INT", IntV(1), FALSE, FALSE)
opt_text == Opt("text", "STRING", StrV(T_hi), FALSE, FALSE)
opt_also == Opt("also", "STRING", ListV(<<StrV(T_them)>>), FALSE, TRUE)
opt_name == Opt("name", "STRING", StrV(T_you), FALSE, FALSE)
opt_dry_run == Opt("dry_run", "BOOL", BoolV(FALSE), FALSE, FALSE)
opt_title == Opt("title", "STRING", NoneV, TRUE, FALSE)
opt_datafile == Opt("datafile", "FILE_W", NoneV, TRUE, FALSE)

T_date == <<"2", "0", "2", "1", "-", "0", "1", "-", "2", "3">>
T_notadate == <<"n", "o", "t", "-", "a", "-", "d", "a", "t", "e">>
T_blank == <<" ">>
T_red == <<"r", "e", "d">>
T_green == <<"g", "r", "e", "e", "n">>

\* a required date-time option, a choice option, a file option opened for
\* reading, and an option whose type is a ParamType subclass that sets no
\* name attribute
opt_when == Opt("when", "DATETIME", NoneV, TRUE, FALSE)
opt_color == Opt("color", "CHOICE", StrV(T_green), FALSE, FALSE)
opt_datafile_rb == Opt("datafile", "FILE_R", NoneV, FALSE, FALSE)
opt_level == Opt("level", "NONAME", NoneV, FALSE, FALSE)

\* click.Choice(['red', 'green', 'blue']) (tests/flask/c2f_app.py:67)
choices == {T_red, T_green, <<"b", "l", "u", "e">>}

\* the commands the adapters are built on
hello_cmd == <<opt_count, opt_text>>
goodbye_cmd == <<opt_count, opt_text, opt_also>>
hello_world == <<opt_name, opt_count, opt_dry_run>>
export_cmd == <<opt_title, opt_datafile>>
count_file_size_cmd == <<opt_datafile_rb>>
favorite_color_cmd == <<opt_color>>
remind_cmd == <<opt_when>>
custom_cmd == <<opt_text, opt_level>>
Commands == {hello_cmd, goodbye_cmd, hello_world, export_cmd,
             count_file_size_cmd, favorite_color_cmd, remind_cmd, custom_cmd}

\* a tweak object: FileResCallback(arg_name, mode)
FileResCallback(arg_name, mode) ==
    [cls |-> "FileResCallback", arg_name |-> arg_name, mode |-> mode]
TweakLists ==
    {<<>>, <<FileResCallback("datafile", "wb")>>, <<FileResCallback("text", "w")>>}

\* skip_opt_re: "" stands for None; re_search is pattern.search(name) on
\* the option names of the commands above
SkipPatterns == {"", "text", "file"}
re_search(pattern, name) ==
    \/ pattern = "text" /\ name = "text"
    \/ pattern = "file" /\ name = "datafile"

\* the buffer a FileResCallback injects; n is the tweak's place in the list
BufferV(i, mode) ==
    [kind |-> "buffer", n |-> i, s |-> <<>>, items |-> <<>>, name |-> mode, bytes |-> <<>>]
\* the response flask.make_response builds: body and attachment filename
ResponseV(body, filename) ==
    [kind |-> "response", n |-> 0, s |-> <<>>, items |-> <<>>, name |-> filename, bytes |-> body]

\* an object whose __str__ raises
ObjectV(name) ==
    [kind |-> "object", n |-> 0, s |-> <<>>, items |-> <<>>, name |-> name, bytes |-> <<>>]
\* an exception instance, where a step raised instead of returning
ExcV(exc) ==
    [kind |-> "exc", n |-> 0, s |-> <<>>, items |-> <<>>, name |-> exc, bytes |-> <<>>]

\* what one run of the callback does: returns a value or raises, what it
\* wrote into an injected buffer before that, and whether it closed it
Outcome(raised, exc, value, wrote, closes) ==
    [raised |-> raised, exc |-> exc, value |-> value, wrote |-> wrote, closes |-> closes]
CallbackOutcomes ==
    { Outcome(FALSE, "", StrV(T_bye), T_data, FALSE),
      Outcome(FALSE, "", NoneV, T_empty, FALSE),
      Outcome(FALSE, "", NoneV, T_data, TRUE),
      Outcome(TRUE, "ValueError", NoneV, T_empty, FALSE),
      Outcome(TRUE, "KeyError", NoneV, T_data, FALSE) }

NoRequest == [method |-> "", formdata |-> <<>>, args |-> <<>>, opts |-> <<>>]
NoResponse == [kind |-> "none", value |-> NoneV, exc |-> "", arg |-> ""]
FormPage == [kind |-> "form", value |-> NoneV, exc |-> "", arg |-> ""]
Result(v) == [kind |-> "result", value |-> v, exc |-> "", arg |-> ""]
Raise(exc, arg) == [kind |-> "raise", value |-> NoneV, exc |-> exc, arg |-> arg]

OptNames == {clickCmd[i].name : i \in DOMAIN clickCmd}
OptOf(name) == clickCmd[CHOOSE i \in DOMAIN clickCmd : clickCmd[i].name = name]
SeqNames(opts) == {opts[i].name : i \in DOMAIN opts}

\* how many watched wrappers lie around the original function at most
MaxLayers == 2

\* two tweaks in one list claim the same option, in different modes
TweakPairs == {<<FileResCallback("text", "w"), FileResCallback("text", "wb")>>}

\* self.buffer of a tweak that has injected nothing yet (c2f.py:67)
NoBuffer == [made |-> FALSE, closed |-> FALSE, content |-> <<>>]

\* __init__ of both adapters (c2f.py:172-193, c2g.py:29-43)
AdapterInit ==
    /\ adapter \in {"wtf", "generic"}
    /\ clickCmd \in Commands
    /\ skip_opt_re \in SkipPatterns
    /\ tweaks \in TweakLists \cup TweakPairs
    /\ \A i \in DOMAIN tweaks : tweaks[i].arg_name \in OptNames
    /\ fill_get_from_url \in (IF adapter = "wtf" THEN BOOLEAN ELSE {FALSE})
    /\ callback \in 0..MaxLayers
    /\ gobbled_opts = <<>>
    /\ phase = "ready"
    /\ request = NoRequest
    /\ form = <<>>
    /\ callback_calls = <<>>
    /\ response = NoResponse
    /\ buffers = [i \in DOMAIN tweaks |-> NoBuffer]
    /\ trace = <<>>
    /\ gobble_log = <<>>
    /\ earlier = [built |-> FALSE, supplied |-> {}]

\* the adapter state of a run that uses no adapter
AdapterUnused ==
    /\ adapter = "none"
    /\ clickCmd = <<>>
    /\ skip_opt_re = ""
    /\ tweaks = <<>>
    /\ fill_get_from_url = FALSE
    /\ callback = 0
    /\ gobbled_opts = <<>>
    /\ phase = "ready"
    /\ request = NoRequest
    /\ form = <<>>
    /\ callback_calls = <<>>
    /\ response = NoResponse
    /\ buffers = <<>>
    /\ trace = <<>>
    /\ gobble_log = <<>>
    /\ earlier = [built |-> FALSE, supplied |-> {}]

(***************************************************************************)
(* PART 2b.  watched (decorators.py:23-228)                                *)
(***************************************************************************)

\* how many times the watched function is called
MaxCalls == 2

\* a result whose string form is longer than watched keeps
T_long == [i \in 1..201 |-> "x"]

\* the exception classes except Exception catches: all but the direct
\* subclasses of BaseException
IsException(exc) == exc \notin {"SystemExit", "KeyboardInterrupt"}

\* the tag argument of watched: None, a callable that returns a string on
\* the arguments of the call, a callable that raises on them
Tags == {"none", "callable", "raising"}

\* one message the logger receives; a watch record is one with `extra`,
\* whose key watched says start or end
LogRecord(level, watched, status, w_uuid, w_result, w_error) ==
    [level |-> level, watched |-> watched, status |-> status, w_uuid |-> w_uuid,
     w_result |-> w_result, w_error |-> w_error]

\* what calling a function gave: the messages logged meanwhile and how the
\* call ended
Called(records, fo) == [records |-> records, fo |-> fo]

\* _start_watch (decorators.py:23-66): the tag is computed first, then the
\* start record is logged
start_watch(w_uuid, tag) ==
    IF tag = "raising"
    THEN Called(<<>>, Outcome(TRUE, "TagError", NoneV, T_empty, FALSE))
    ELSE Called(<<LogRecord("info", "start", "", w_uuid, <<>>, "")>>,
                Outcome(FALSE, "", NoneV, T_empty, FALSE))

\* str(result), decorators.py:217
py_str(v) ==
    CASE v.kind = "str" -> v.s
      [] v.kind = "none" -> <<"N", "o", "n", "e">>
      [] OTHER -> <<"?">>

\* decorators.py:214-222: the string form of the result, cut to 195
\* characters and an ellipsis when longer than 200, "(unknown)" and an
\* error message when str() raises
str_result(w_uuid, v) ==
    IF v.kind = "object"
    THEN Called(<<LogRecord("error", "", "", w_uuid, <<>>, "__str__")>>,
                Outcome(FALSE, "", StrV(<<"(", "u", "n", "k", "n", "o", "w", "n", ")">>), T_empty, FALSE))
    ELSE Called(<<>>, Outcome(FALSE, "",
                    StrV(IF Len(py_str(v)) > 200
                         THEN SubSeq(py_str(v), 1, 195) \o <<".", ".", ".">> ELSE py_str(v)),
                    T_empty, FALSE))

\* _end_watch (decorators.py:69-94)
end_watch(w_uuid, text) == <<LogRecord("info", "end", "ok", w_uuid, text, "")>>

\* _error_watch (decorators.py:97-121)
error_watch(w_uuid, my_problem) ==
    <<LogRecord("warning", "end", "error", w_uuid, <<>>, my_problem)>>

\* outer_wrapper (decorators.py:207-228) around a call that went as `inner`
\* says: debug message, start record, the wrapped call, then the end record
\* of a return or of an exception that `except Exception` catches
outer_wrapper(w_uuid, tag, inner) ==
    LET begun == start_watch(w_uuid, tag)
        meta == <<LogRecord("debug", "", "", w_uuid, <<>>, "")>>
    IN IF begun.fo.raised THEN Called(meta, begun.fo)
       ELSE IF inner.fo.raised
       THEN IF IsException(inner.fo.exc)
            THEN Called(meta \o begun.records \o inner.records
                             \o error_watch(w_uuid, inner.fo.exc), inner.fo)
            ELSE Called(meta \o begun.records \o inner.records, inner.fo)
       ELSE Called(meta \o begun.records \o inner.records
                        \o str_result(w_uuid, inner.fo.value).records
                        \o end_watch(w_uuid, str_result(w_uuid, inner.fo.value).fo.value.s),
                   inner.fo)

\* calling a function that `layers` watched wrappers lie around; the
\* wrappers are numbered from the outermost, w_uuid is <<call, wrapper>>
RECURSIVE CallWrapped(_, _, _, _, _)
CallWrapped(layers, call, depth, tag, fo) ==
    IF layers = 0 THEN Called(<<>>, fo)
    ELSE outer_wrapper(<<call, depth>>, tag,
                       CallWrapped(layers - 1, call, depth + 1, tag, fo))

\* what the watched function does in one call
WatchedOutcomes ==
    { Outcome(FALSE, "", StrV(T_bye), T_empty, FALSE),
      Outcome(FALSE, "", StrV(T_long), T_empty, FALSE),
      Outcome(FALSE, "", ObjectV("unprintable"), T_empty, FALSE),
      Outcome(TRUE, "ValueError", NoneV, T_empty, FALSE),
      Outcome(TRUE, "KeyError", NoneV, T_empty, FALSE),
      Outcome(TRUE, "SystemExit", NoneV, T_empty, FALSE) }

WatchInit ==
    /\ w_log = <<>>
    /\ w_outcome = <<>>

\* a caller calls the watched function: foo(2), bar(3) of the doctest
\* (decorators.py:157-200)
CallWatched ==
    /\ Len(w_outcome) < MaxCalls
    /\ \E tag \in Tags, fo \in WatchedOutcomes :
          LET call == Len(w_outcome) + 1
              went == CallWrapped(1, call, 1, tag, fo)
          IN /\ w_log' = w_log \o went.records
             /\ w_outcome' = Append(w_outcome, [tag |-> tag, did |-> fo, got |-> went.fo])
    /\ UNCHANGED other_than_watch

WatchNext == CallWatched

(***************************************************************************)
(* PART 3.  ClickToWTF (c2f.py:170-381)                                    *)
(***************************************************************************)

\* FileResCallback.gobble (c2f.py:69-71)
TweakGobble(tweak, name) == name = tweak.arg_name

\* gobble(name): the reason of the first tweak that claims the name, None
\* when no tweak does (c2f.py:248-254, c2g.py:64-74)
gobble(name) == \E i \in DOMAIN tweaks : TweakGobble(tweaks[i], name)

\* variant: the skip pattern is never consulted
SkippedNever(name) == FALSE

\* the test `self.skip_opt_re and self.skip_opt_re.search(opt.name)`
Skipped(name) == skip_opt_re # "" /\ re_search(skip_opt_re, name)

\* variant: gobbled options are yielded like any other
ShownIgnoringGobble(opt) == ~Skipped(opt.name)

\* an option the loop over the parameters gives a field to
Shown(opt) == ~Skipped(opt.name) /\ ~gobble(opt.name)

\* click_cmd_params(): the options that are neither skipped nor gobbled
click_cmd_params == SelectSeq(clickCmd, Shown)

\* the names gobble() has recorded once the loop has looked at the first
\* `upto` options: a skipped option is never offered to the tweaks
GobbledUpTo(upto) ==
    {clickCmd[i].name : i \in {j \in 1..upto :
        ~Skipped(clickCmd[j].name) /\ gobble(clickCmd[j].name)}}

\* self.gobbled_opts[name] = reason, for every name in `names`
RecordGobbled(names) ==
    [n \in (DOMAIN gobbled_opts) \cup names |-> TRUE]

\* what a type mapper raised instead of returning a field
MapperErrors == {"TypeError", "AttributeError"}

\* click_opt_to_wtf_field (c2f.py:264-298): the field class for the
\* option's type.  A File type in a write mode falls through to the last
\* test, getattr(opt.type, 'name') == 'choice', which has no fallback and
\* raises AttributeError on a type without a name; every other type ends
\* in TypeError
click_opt_to_wtf_field(opt) ==
    CASE opt.type = "INT" -> "IntegerField"
      [] opt.type = "STRING" -> "StringField"
      [] opt.type = "DATETIME" -> "DateTimeFieldTweak"
      [] opt.type = "FILE_R" -> "FileField"
      [] opt.type = "NONAME" -> "AttributeError"
      [] opt.type = "CHOICE" -> "SelectField"
      [] OTHER -> "TypeError"

\* the argument of the exception the mapper raises: TypeError names the
\* type, AttributeError the attribute that is missing
MapperErrorArg(err, opt) == IF err = "TypeError" THEN opt.type ELSE "name"

Min(S) == CHOOSE x \in S : \A y \in S : x <= y

\* variant: the loop of gobble() asks every tweak, whatever the answers
gobble_consultedAll(name) ==
    [k \in DOMAIN tweaks |->
        [i |-> k, name |-> name, reason |-> TweakGobble(tweaks[k], name)]]

\* the loop of gobble(name), c2f.py:249-254 and c2g.py:69-74: the calls of
\* tweak.gobble it makes, in list order up to the first truthy answer,
\* which is returned at once
gobble_consulted(name) ==
    LET claiming == {k \in DOMAIN tweaks : TweakGobble(tweaks[k], name)}
        last == IF claiming = {} THEN Len(tweaks) ELSE Min(claiming)
    IN [k \in 1..last |->
            [i |-> k, name |-> name, reason |-> TweakGobble(tweaks[k], name)]]

\* one run of the loop over the parameters (c2f.py:199-205, c2g.py:53-60)
\* through the first `upto` options: gobble() is called for every option
\* the skip pattern does not match
RECURSIVE GobblePass(_)
GobblePass(upto) ==
    IF upto = 0 THEN <<>>
    ELSE GobblePass(upto - 1) \o (IF Skipped(clickCmd[upto].name) THEN <<>>
                                  ELSE gobble_consulted(clickCmd[upto].name))

\* form_cls(): the place in clickCmd of the first shown option whose type
\* has no field, 0 when every shown option gets a field
WTF_FirstUnmapped ==
    LET bad == {i \in DOMAIN clickCmd :
                  Shown(clickCmd[i]) /\ click_opt_to_wtf_field(clickCmd[i]) \in MapperErrors}
    IN IF bad = {} THEN 0 ELSE Min(bad)

\* int(text) of Python, on unsigned or signed decimal text
IsDigit(c) == c \in {"0", "1", "2", "3", "4", "5", "6", "7", "8", "9"}
DigitVal(c) ==
    CASE c = "0" -> 0 [] c = "1" -> 1 [] c = "2" -> 2 [] c = "3" -> 3
      [] c = "4" -> 4 [] c = "5" -> 5 [] c = "6" -> 6 [] c = "7" -> 7
      [] c = "8" -> 8 [] c = "9" -> 9
AllDigits(cs) == Len(cs) > 0 /\ \A i \in DOMAIN cs : IsDigit(cs[i])
IsIntText(cs) ==
    /\ Len(cs) > 0
    /\ IF cs[1] = "-" THEN AllDigits(Tail(cs)) ELSE AllDigits(cs)
RECURSIVE ParseDigits(_)
ParseDigits(cs) ==
    IF cs = <<>> THEN 0
    ELSE 10 * ParseDigits(SubSeq(cs, 1, Len(cs) - 1)) + DigitVal(cs[Len(cs)])
ParseInt(cs) == IF cs[1] = "-" THEN 0 - ParseDigits(Tail(cs)) ELSE ParseDigits(cs)

\* ' '.join(valuelist)
RECURSIVE Join(_)
Join(valuelist) ==
    IF valuelist = <<>> THEN <<>>
    ELSE IF Len(valuelist) = 1 THEN valuelist[1]
    ELSE valuelist[1] \o <<" ">> \o Join(Tail(valuelist))

\* a datetime.datetime value, n is year * 10000 + month * 100 + day
DateTimeV(year, month, day) ==
    [kind |-> "datetime", n |-> year * 10000 + month * 100 + day, s |-> <<>>,
     items |-> <<>>, name |-> "", bytes |-> <<>>]

\* text of the shape YYYY-MM-DD naming a month and a day
IsIsoDate(cs) ==
    /\ Len(cs) = 10
    /\ cs[5] = "-" /\ cs[8] = "-"
    /\ AllDigits(SubSeq(cs, 1, 4)) /\ AllDigits(SubSeq(cs, 6, 7)) /\ AllDigits(SubSeq(cs, 9, 10))
    /\ ParseDigits(SubSeq(cs, 6, 7)) \in 1..12
    /\ ParseDigits(SubSeq(cs, 9, 10)) \in 1..31

\* dateutil.parser.parse on the texts submitted here, c2f.py:164-167: an
\* ISO date parses, text without a date (letters, blanks) raises ParserError
dateutil_parse(cs) ==
    IF IsIsoDate(cs)
    THEN [data |-> DateTimeV(ParseDigits(SubSeq(cs, 1, 4)), ParseDigits(SubSeq(cs, 6, 7)),
                             ParseDigits(SubSeq(cs, 9, 10))),
          process_errors |-> {}]
    ELSE [data |-> StrV(cs), process_errors |-> {"ParserError"}]

\* DateTimeFieldTweak.process_formdata (c2f.py:157-167): non-empty text is
\* stored as the data and then replaced by what it parses to; a parse
\* error leaves the text as the data
DateTimeFieldTweak_process_formdata(valuelist, data) ==
    IF valuelist # <<>> /\ Join(valuelist) # <<>>
    THEN dateutil_parse(Join(valuelist))
    ELSE [data |-> data, process_errors |-> {}]

\* Field.process_data of the field classes on the field's default:
\* IntegerField converts with int(), the others store it
process_data(cls, default) ==
    IF cls = "IntegerField" /\ default.kind = "str"
    THEN IF IsIntText(default.s)
         THEN [data |-> IntV(ParseInt(default.s)), process_errors |-> {}]
         ELSE [data |-> NoneV, process_errors |-> {"Not a valid integer value."}]
    ELSE [data |-> default, process_errors |-> {}]

\* Field.process_formdata of the field classes: IntegerField converts the
\* first submitted value with int(), the others store the first value
process_formdata(cls, valuelist, data) ==
    IF cls = "DateTimeFieldTweak"
    THEN DateTimeFieldTweak_process_formdata(valuelist, data)
    ELSE IF valuelist = <<>> THEN [data |-> data, process_errors |-> {}]
    ELSE IF cls = "IntegerField"
    THEN IF IsIntText(valuelist[1])
         THEN [data |-> IntV(ParseInt(valuelist[1])), process_errors |-> {}]
         ELSE [data |-> NoneV, process_errors |-> {"Not a valid integer value."}]
    ELSE [data |-> StrV(valuelist[1]), process_errors |-> {}]

\* Field.pre_validate: SelectField accepts one of its choices only
pre_validate(cls, data) ==
    IF cls = "SelectField" /\ ~(data.kind = "str" /\ data.s \in choices)
    THEN {"Not a valid choice."} ELSE {}

\* FlaskForm.is_submitted(): the request carries a submission
is_submitted(req) == req.method \in {"POST", "PUT", "PATCH", "DELETE"}

\* the truth value of a Python value, as DataRequired tests it
Truthy(v) ==
    CASE v.kind = "none" -> FALSE
      [] v.kind = "int" -> v.n # 0
      [] v.kind = "bool" -> v.n # 0
      [] v.kind = "str" -> \E i \in DOMAIN v.s : v.s[i] # " "
      [] v.kind = "list" -> v.items # <<>>
      [] OTHER -> TRUE

\* populate_form_from_url (c2f.py:242-246) on one option of
\* click_cmd_params(): a value of that name in the URL replaces the default
populate_form_from_url(opt, args, default) ==
    IF opt.name \in DOMAIN args THEN StrV(args[opt.name]) ELSE default

\* variant: the URL is read whatever the request method is
form_cls_defaultAnyMethod(opt, req) ==
    IF fill_get_from_url
    THEN populate_form_from_url(opt, req.args, opt.default)
    ELSE opt.default

\* the default of the unbound field form_cls() leaves on the form class:
\* default=opt.default (c2f.py:273), replaced from the URL on a GET of an
\* adapter with fill_get_from_url set (c2f.py:217-218)
form_cls_default(opt, req) ==
    IF req.method = "GET" /\ fill_get_from_url
    THEN populate_form_from_url(opt, req.args, opt.default)
    ELSE opt.default

\* the validators click_opt_to_wtf_field gives the field (c2f.py:266-269)
field_validators(opt) == IF opt.required THEN {"DataRequired"} ELSE {}

\* one field of the form instance: Field.process (default, then the
\* submitted values when the request is a submission) and, on a
\* submission, Field.validate: the errors of processing and of
\* pre_validate, which a failing DataRequired of a required option
\* replaces by its own (c2f.py:266-273)
WTF_field(opt, req) ==
    LET cls == click_opt_to_wtf_field(opt)
        default == form_cls_default(opt, req)
        dflt == process_data(cls, default)
        valuelist == IF is_submitted(req) /\ opt.name \in DOMAIN req.formdata
                     THEN req.formdata[opt.name] ELSE <<>>
        got == IF is_submitted(req)
               THEN process_formdata(cls, valuelist, dflt.data)
               ELSE [data |-> dflt.data, process_errors |-> {}]
        found == dflt.process_errors \cup got.process_errors \cup pre_validate(cls, got.data)
    IN [cls |-> cls,
        default |-> default,
        validators |-> field_validators(opt),
        data |-> got.data,
        errors |-> IF ~is_submitted(req) THEN {}
                   ELSE IF "DataRequired" \in field_validators(opt) /\ ~Truthy(got.data)
                   THEN {"* required field"} ELSE found]

\* form(): one field per option of click_cmd_params()
WTF_form(req) ==
    [n \in SeqNames(click_cmd_params) |-> WTF_field(OptOf(n), req)]

\* FlaskForm.validate_on_submit(); the CSRF field is switched off, as in
\* tests/flask/c2f_app.py:19
validate_on_submit(req, frm) ==
    is_submitted(req) /\ \A n \in DOMAIN frm : frm[n].errors = {}

\* kwargs[key] = value on a dict
DictSet(kwargs, key, value) ==
    [k \in (DOMAIN kwargs) \cup {key} |-> IF k = key THEN value ELSE kwargs[k]]

\* process(), c2f.py:308-316: the field data of the shown options (wrapped
\* in a list for an option with multiple set) laid over the defaults of
\* all options
WTF_kwargs(frm) ==
    [n \in OptNames |->
        IF n \in DOMAIN frm
        THEN IF OptOf(n).multiple THEN ListV(<<frm[n].data>>) ELSE frm[n].data
        ELSE OptOf(n).default]

\* one thing handle_request did: a field built, a tweak step, the call of
\* the callback, a message logged; v is what the step was given, out what
\* it gave back
Event(ev, i, name, v, out) == [ev |-> ev, i |-> i, name |-> name, v |-> v, out |-> out]

\* click_opt_to_field (c2g.py:140-156): the GenericField's type, or
\* TypeError for a type without a field
click_opt_to_field(opt) ==
    CASE opt.type = "INT" -> "int"
      [] opt.type = "BOOL" -> "bool"
      [] opt.type = "STRING" -> "int"
      [] opt.type = "DATETIME" -> "datetime"
      [] opt.type \in {"FILE_R", "FILE_W"} -> "str"
      [] OTHER -> "TypeError"

\* the fields form_cls builds, one call of the adapter's type mapper for
\* each shown option in command order, up to the first that raises
\* (c2f.py:213-215, c2g.py:53-60)
FieldEvents ==
    LET Map(o) == IF adapter = "wtf" THEN click_opt_to_wtf_field(o)
                  ELSE click_opt_to_field(o)
        shown == SelectSeq(clickCmd, Shown)
        bad == {i \in DOMAIN shown : Map(shown[i]) \in MapperErrors}
        last == IF bad = {} THEN Len(shown) ELSE Min(bad)
    IN [i \in 1..last |->
            Event("field", i, shown[i].name, NoneV,
                  IF Map(shown[i]) \in MapperErrors
                  THEN ExcV(Map(shown[i])) ELSE ObjectV(Map(shown[i])))]

\* the values a call puts in place of compiled defaults, by option name:
\* populate_form_from_url sets field.kwargs['default'] from request.args
\* (c2f.py:237-241) on a GET with fill_get_from_url, form(opts) sets
\* field.data from every value of opts that is not None (c2g.py:87-90)
Overrides(req) ==
    IF adapter = "wtf"
    THEN IF req.method = "GET" /\ fill_get_from_url
         THEN [n \in DOMAIN req.args \cap SeqNames(click_cmd_params) |-> StrV(req.args[n])]
         ELSE <<>>
    ELSE [n \in {m \in DOMAIN req.opts : req.opts[m] # NoneV} |-> req.opts[n]]

\* variant: the value is written to the option descriptor, opt.default
params_after_formOptWritten(req) ==
    [i \in DOMAIN clickCmd |->
        IF clickCmd[i].name \in DOMAIN Overrides(req)
        THEN [clickCmd[i] EXCEPT !.default = Overrides(req)[clickCmd[i].name]]
        ELSE clickCmd[i]]

\* self.clickCmd.params once form() has run: the fields written to are
\* those of the class built in this call, no attribute of an option is
\* assigned anywhere (c2f.py:207-246, c2g.py:45-92)
params_after_form(req) == clickCmd

\* FileResCallback.pad_kwargs (c2f.py:73-76): a fresh buffer under arg_name
TweakPad(i, kwargs) ==
    DictSet(kwargs, tweaks[i].arg_name, BufferV(i, tweaks[i].mode))

\* pad_kwargs (c2f.py:256-258, c2g.py:76-80): every tweak in list order
RECURSIVE PadFrom(_, _)
PadFrom(i, kwargs) ==
    IF i > Len(tweaks) THEN kwargs ELSE PadFrom(i + 1, TweakPad(i, kwargs))
pad_kwargs(kwargs) == PadFrom(1, kwargs)

\* self.buffer = BytesIO() or StringIO() (c2f.py:75): open and empty
FreshBuffer == [made |-> TRUE, closed |-> FALSE, content |-> <<>>]

\* variant: a tweak that has a buffer opens it again and keeps using it
pad_buffersReuse ==
    [i \in DOMAIN tweaks |->
        IF buffers[i].made THEN [buffers[i] EXCEPT !.closed = FALSE] ELSE FreshBuffer]

\* self.buffer of every tweak once pad_kwargs has run
pad_buffers == [i \in DOMAIN tweaks |-> FreshBuffer]

\* 'b' in self.mode
HasB(mode) == mode \in {"wb", "rb"}

\* str.encode('utf-8') on the ASCII letters the callbacks write
Ord(c) ==
    CASE c = "a" -> 97 [] c = "b" -> 98 [] c = "d" -> 100 [] c = "e" -> 101
      [] c = "t" -> 116 [] c = "y" -> 121 [] OTHER -> 63
utf8_encode(cs) == [i \in DOMAIN cs |-> Ord(cs[i])]

\* the buffer a tweak held in self.buffer before pad_kwargs replaced it:
\* None at first, later the buffer of the invocation before, with what is
\* left in it
HeldBuffer(i) ==
    IF ~buffers[i].made THEN NoneV
    ELSE [kind |-> "buffer", n |-> i, s |-> <<>>, items |-> <<>>,
          name |-> IF buffers[i].closed THEN "closed" ELSE "open",
          bytes |-> IF HasB(tweaks[i].mode) THEN buffers[i].content
                    ELSE utf8_encode(buffers[i].content)]

\* the inject steps as they ran: tweak, option name, the buffer replaced
\* and the buffer injected
pad_events ==
    [i \in DOMAIN tweaks |->
        Event("pad", i, tweaks[i].arg_name, HeldBuffer(i), BufferV(i, tweaks[i].mode))]

\* the callback writes into the buffers it finds in its keyword arguments,
\* text into a StringIO and the same text as bytes into a BytesIO, after
\* what the buffer holds, and closes them or not
callback_writes(kwargs, bufs, co) ==
    [i \in DOMAIN bufs |->
        IF kwargs[tweaks[i].arg_name] = BufferV(i, tweaks[i].mode)
        THEN [made |-> TRUE, closed |-> co.closes,
              content |-> bufs[i].content \o
                    (IF HasB(tweaks[i].mode) THEN utf8_encode(co.wrote) ELSE co.wrote)]
        ELSE bufs[i]]

\* getattr(callback, '__wrapped__', None) (c2f.py:319-323, c2g.py:186-190):
\* the object under the outermost wrapper is what gets called; the number
\* of watched wrappers that still lie around the original function
wrapped_cmd == IF callback > 0 THEN callback - 1 ELSE 0

\* the call of wrapped_cmd or of the callback, c2f.py:321-323: what the
\* remaining wrappers log before the original function runs, its call, and
\* what they log after it
callback_events(co) ==
    LET went == CallWrapped(wrapped_cmd, 1, callback - wrapped_cmd + 1, "none", co)
        starts == SelectSeq(went.records, LAMBDA r : r.watched # "end" /\ r.level # "error")
        ends == SelectSeq(went.records, LAMBDA r : r.watched = "end" \/ r.level = "error")
        as_event(r) == Event(IF r.watched = "" THEN "log" ELSE "watch",
                             r.w_uuid[2], r.watched, NoneV, NoneV)
    IN [k \in DOMAIN starts |-> as_event(starts[k])]
       \o <<Event("call", 0, "callback", NoneV,
                  IF co.raised THEN ExcV(co.exc) ELSE co.value)>>
       \o [k \in DOMAIN ends |-> as_event(ends[k])]

\* FileResCallback.post_process_result (c2f.py:81-95): the previous result
\* is dropped; getvalue() of a closed buffer raises ValueError, else the
\* buffer's content, encoded when it is text, becomes the body of an
\* attachment named after the option
TweakPost(i, result, buf) ==
    IF buf.closed THEN ExcV("ValueError")
    ELSE ResponseV(IF HasB(tweaks[i].mode) THEN buf.content ELSE utf8_encode(buf.content),
                   tweaks[i].arg_name)

\* variant: every tweak is handed the callback's raw result
RECURSIVE PostFromRaw(_, _)
PostFromRaw(i, st) ==
    IF i > Len(tweaks) \/ st.raised THEN st
    ELSE LET out == TweakPost(i, st.raw, st.bufs[i])
         IN PostFromRaw(i + 1, [st EXCEPT
                !.result = out,
                !.bufs = [st.bufs EXCEPT ![i].closed = TRUE],
                !.events = Append(st.events,
                         Event("post", i, tweaks[i].arg_name, st.raw, out)),
                !.raised = out.kind = "exc"])

\* the loop of post_process from tweak i on (c2f.py:329-330): the tweak is
\* handed the result so far and what it returns is the result from then
\* on; its buffer is closed whether getvalue() raised or not; an exception
\* ends the loop
RECURSIVE PostFrom(_, _)
PostFrom(i, st) ==
    IF i > Len(tweaks) \/ st.raised THEN st
    ELSE LET out == TweakPost(i, st.result, st.bufs[i])
         IN PostFrom(i + 1, [st EXCEPT
                !.result = out,
                !.bufs = [st.bufs EXCEPT ![i].closed = TRUE],
                !.events = Append(st.events,
                         Event("post", i, tweaks[i].arg_name, st.result, out)),
                !.raised = out.kind = "exc"])

\* post_process (c2f.py:327-331, c2g.py:194-204)
post_process(raw_result, bufs) ==
    PostFrom(1, [raw |-> raw_result, result |-> raw_result, bufs |-> bufs,
                 events |-> <<>>, raised |-> FALSE])

\* what process() gives its caller after the callback went as `co` and
\* post_process as `post`
process_response(co, post) ==
    IF co.raised THEN Raise(co.exc, "callback")
    ELSE IF post.raised THEN Raise(post.result.name, "post_process_result")
    ELSE Result(post.result)

\* variant: an exception of the callback is caught and the form shown
WTF_processSwallow(frm, co) ==
    LET kwargs == pad_kwargs(WTF_kwargs(frm))
        written == callback_writes(kwargs, pad_buffers, co)
        post == post_process(co.value, written)
    IN /\ callback_calls' = <<[kwargs |-> kwargs, outcome |-> co]>>
       /\ buffers' = IF co.raised THEN written ELSE post.bufs
       /\ trace' = FieldEvents \o pad_events \o callback_events(co)
                        \o (IF co.raised THEN <<>> ELSE post.events)
       /\ response' = IF co.raised THEN FormPage ELSE process_response(co, post)

\* process(form), c2f.py:307-325: assemble, pad, call the callback, which
\* returns or raises as `co` says, post-process what it returned
WTF_process(frm, co) ==
    LET kwargs == pad_kwargs(WTF_kwargs(frm))
        written == callback_writes(kwargs, pad_buffers, co)
        post == post_process(co.value, written)
    IN /\ callback_calls' = <<[kwargs |-> kwargs, outcome |-> co]>>
       /\ buffers' = IF co.raised THEN written ELSE post.bufs
       /\ trace' = FieldEvents \o pad_events \o callback_events(co)
                        \o (IF co.raised THEN <<>> ELSE post.events)
       /\ response' = process_response(co, post)

\* variant: the form is processed as soon as it was submitted
validate_on_submitUnchecked(req, frm) == is_submitted(req)

\* the `if` of handle_request, c2f.py:377
WTF_accepts(req, frm) == validate_on_submit(req, frm)

\* handle_request(), c2f.py:375-381, on the pending request
WTF_handle_request ==
    /\ adapter = "wtf"
    /\ phase = "pending"
    /\ IF WTF_FirstUnmapped # 0
       THEN /\ gobbled_opts' = RecordGobbled(GobbledUpTo(WTF_FirstUnmapped))
            /\ form' = <<>>
            /\ callback_calls' = <<>>
            /\ trace' = FieldEvents
            /\ gobble_log' = GobblePass(WTF_FirstUnmapped)
            /\ response' = Raise(click_opt_to_wtf_field(clickCmd[WTF_FirstUnmapped]),
                                 MapperErrorArg(click_opt_to_wtf_field(clickCmd[WTF_FirstUnmapped]),
                                                clickCmd[WTF_FirstUnmapped]))
            /\ UNCHANGED buffers
       ELSE /\ gobbled_opts' = RecordGobbled(GobbledUpTo(Len(clickCmd)))
            /\ form' = WTF_form(request)
            /\ IF WTF_accepts(request, WTF_form(request))
               THEN /\ \E co \in CallbackOutcomes : WTF_process(WTF_form(request), co)
                    /\ gobble_log' = GobblePass(Len(clickCmd)) \o GobblePass(Len(clickCmd))
               ELSE /\ callback_calls' = <<>>
                    /\ trace' = FieldEvents
                    /\ gobble_log' =
                            IF request.method = "GET" /\ fill_get_from_url
                            THEN GobblePass(Len(clickCmd)) \o GobblePass(Len(clickCmd))
                            ELSE GobblePass(Len(clickCmd))
                    /\ response' = FormPage
                    /\ UNCHANGED buffers
    /\ phase' = "answered"
    /\ clickCmd' = params_after_form(request)
    /\ UNCHANGED <<setup_vars, request, earlier>>
    /\ UNCHANGED other_than_adapter

\* what a client may submit under one field name
Submissions == {<<T_3>>, <<T_bad>>, <<T_empty>>, Repeated(MaxSubmit)}
\* what a client may submit for an option: dates and text that is none for
\* a date-time option, a choice and text that is none for a choice option
SubmissionsFor(opt) ==
    CASE opt.type = "DATETIME" -> {<<T_date>>, <<T_notadate>>, <<T_empty>>, <<T_blank>>}
      [] opt.type = "CHOICE" -> {<<T_red>>, <<T_bad>>}
      [] OTHER -> Submissions
FormDatas ==
    UNION {{f \in [S -> UNION {SubmissionsFor(clickCmd[i]) : i \in DOMAIN clickCmd}] :
                \A n \in S : f[n] \in SubmissionsFor(OptOf(n))} : S \in SUBSET OptNames}

\* the parameters in the URL of a request: request.args
ArgDicts == {[n \in S |-> T_3] : S \in SUBSET OptNames}
\* the requests that reach the view: a GET with parameters in the URL, a
\* POST of a form, with or without parameters in the URL
HttpRequests ==
    {[method |-> "GET", formdata |-> <<>>, args |-> args, opts |-> <<>>] :
        args \in ArgDicts}
    \cup {[method |-> "POST", formdata |-> formdata, args |-> args, opts |-> <<>>] :
        formdata \in FormDatas, args \in {<<>>, [n \in OptNames |-> T_3]}}

\* a GET or a POST reaches the view that calls handle_request
\* (tests/flask/c2f_app.py:82-101)
HttpRequest ==
    /\ adapter = "wtf"
    /\ phase = "ready"
    /\ request' \in HttpRequests
    /\ phase' = "pending"
    /\ form' = <<>>
    /\ callback_calls' = <<>>
    /\ response' = NoResponse
    /\ trace' = <<>>
    /\ gobble_log' = <<>>
    /\ UNCHANGED <<config_vars, gobbled_opts, buffers, earlier>>
    /\ UNCHANGED other_than_adapter

(***************************************************************************)
(* PART 4.  ClickToGeneric (c2g.py:25-224)                                 *)
(***************************************************************************)


\* form_cls(), c2g.py:53-60: the place of the first shown option whose
\* type has no field, 0 when every shown option gets one
Generic_FirstUnmapped ==
    LET bad == {i \in DOMAIN clickCmd :
                  Shown(clickCmd[i]) /\ click_opt_to_field(clickCmd[i]) = "TypeError"}
    IN IF bad = {} THEN 0 ELSE Min(bad)

\* form_cls() and cls(): one GenericField per shown option, its data the
\* option's default (c2g.py:15-22, 45-62)
Generic_form_cls ==
    [n \in SeqNames(SelectSeq(clickCmd, Shown)) |->
        [cls |-> click_opt_to_field(OptOf(n)), data |-> OptOf(n).default, errors |-> {}]]

\* form(opts), c2g.py:87-90: the names whose value is not None and that
\* have no field on the form: getattr(my_form, name) fails for them
Generic_unknown(opts) ==
    {n \in DOMAIN opts : opts[n] # NoneV /\ n \notin DOMAIN Generic_form_cls}

\* form(opts), c2g.py:82-92: every value of opts that is not None replaces
\* the data of the field of that name
Generic_form(opts) ==
    [n \in DOMAIN Generic_form_cls |->
        IF n \in DOMAIN opts /\ opts[n] # NoneV
        THEN [Generic_form_cls[n] EXCEPT !.data = opts[n]]
        ELSE Generic_form_cls[n]]

\* process(), c2g.py:173-176: the options the loop reads a field of: all
\* but those recorded in gobbled_opts
Generic_read(gobbled) == {i \in DOMAIN clickCmd : clickCmd[i].name \notin DOMAIN gobbled}

\* process(), c2g.py:176: the place of the first option the loop reads that
\* has no field on the form, 0 when there is none
Generic_FirstFieldless(frm, gobbled) ==
    LET bad == {i \in Generic_read(gobbled) : clickCmd[i].name \notin DOMAIN frm}
    IN IF bad = {} THEN 0 ELSE Min(bad)

\* process(), c2g.py:172-183: the field data of every option the loop
\* reads, in a list for an option with multiple set
Generic_kwargs(frm, gobbled) ==
    [n \in {clickCmd[i].name : i \in Generic_read(gobbled)} |->
        IF OptOf(n).multiple THEN ListV(<<frm[n].data>>) ELSE frm[n].data]

\* process(form), c2g.py:158-192
Generic_process(frm, gobbled, co) ==
    LET kwargs == pad_kwargs(Generic_kwargs(frm, gobbled))
        written == callback_writes(kwargs, pad_buffers, co)
        post == post_process(co.value, written)
    IN /\ callback_calls' = <<[kwargs |-> kwargs, outcome |-> co]>>
       /\ buffers' = IF co.raised THEN written ELSE post.bufs
       /\ trace' = FieldEvents \o pad_events \o callback_events(co)
                        \o (IF co.raised THEN <<>> ELSE post.events)
       /\ response' = process_response(co, post)

\* handle_request(opts), c2g.py:206-224, on the pending call
Generic_handle_request ==
    /\ adapter = "generic"
    /\ phase = "pending"
    /\ IF Generic_FirstUnmapped # 0
       THEN /\ gobbled_opts' = RecordGobbled(GobbledUpTo(Generic_FirstUnmapped))
            /\ form' = <<>>
            /\ callback_calls' = <<>>
            /\ trace' = FieldEvents
            /\ gobble_log' = GobblePass(Generic_FirstUnmapped)
            /\ response' = Raise("TypeError", clickCmd[Generic_FirstUnmapped].type)
            /\ UNCHANGED buffers
       ELSE /\ gobbled_opts' = RecordGobbled(GobbledUpTo(Len(clickCmd)))
            /\ gobble_log' = GobblePass(Len(clickCmd))
            /\ IF Generic_unknown(request.opts) # {}
               THEN /\ form' = <<>>
                    /\ callback_calls' = <<>>
                    /\ trace' = FieldEvents
                    /\ \E n \in Generic_unknown(request.opts) :
                            response' = Raise("AttributeError", n)
                    /\ UNCHANGED buffers
               ELSE /\ form' = Generic_form(request.opts)
                    /\ IF Generic_FirstFieldless(form', gobbled_opts') # 0
                       THEN /\ callback_calls' = <<>>
                            /\ trace' = FieldEvents
                            /\ UNCHANGED buffers
                            /\ response' = Raise("AttributeError",
                                    clickCmd[Generic_FirstFieldless(form', gobbled_opts')].name)
                       ELSE \E co \in CallbackOutcomes :
                                Generic_process(form', gobbled_opts', co)
    /\ phase' = "answered"
    /\ clickCmd' = params_after_form(request)
    /\ UNCHANGED <<setup_vars, request, earlier>>
    /\ UNCHANGED other_than_adapter

\* the values a caller passes in opts
OptValues == {NoneV, IntV(2), StrV(T_bye)}
OptDicts == UNION {[S -> OptValues] : S \in SUBSET OptNames}

\* a caller calls handle_request(opts) (tests/text/test_basics.py:36-66)
DirectCall ==
    /\ adapter = "generic"
    /\ phase = "ready"
    /\ \E opts \in OptDicts :
            request' = [method |-> "CALL", formdata |-> <<>>, args |-> <<>>, opts |-> opts]
    /\ phase' = "pending"
    /\ form' = <<>>
    /\ callback_calls' = <<>>
    /\ response' = NoResponse
    /\ trace' = <<>>
    /\ gobble_log' = <<>>
    /\ UNCHANGED buffers
    /\ UNCHANGED <<config_vars, gobbled_opts, earlier>>
    /\ UNCHANGED other_than_adapter

\* handle_request has returned or raised: the view, or the caller, is done
\* with this exchange and the adapter waits for the next one
Respond ==
    /\ phase = "answered"
    /\ phase' = "ready"
    /\ request' = NoRequest
    /\ form' = <<>>
    /\ callback_calls' = <<>>
    /\ response' = NoResponse
    /\ trace' = <<>>
    /\ gobble_log' = <<>>
    /\ UNCHANGED <<config_vars, gobbled_opts, buffers, earlier>>
    /\ UNCHANGED other_than_adapter

\* the same step, with the record of what went before brought up to date:
\* a field set was built, and these fields were given a value
RespondNoting ==
    /\ phase = "answered"
    /\ phase' = "ready"
    /\ request' = NoRequest
    /\ form' = <<>>
    /\ callback_calls' = <<>>
    /\ response' = NoResponse
    /\ trace' = <<>>
    /\ gobble_log' = <<>>
    /\ earlier' = [built |-> TRUE,
                   supplied |-> earlier.supplied
                        \cup (DOMAIN Overrides(request) \cap DOMAIN form)]
    /\ UNCHANGED <<config_vars, gobbled_opts, buffers>>
    /\ UNCHANGED other_than_adapter

\* the adapter's steps when `earlier` is kept
SequenceNext ==
    \/ HttpRequest
    \/ WTF_handle_request
    \/ DirectCall
    \/ Generic_handle_request
    \/ RespondNoting

AdapterNext ==
    \/ HttpRequest
    \/ WTF_handle_request
    \/ DirectCall
    \/ Generic_handle_request
    \/ Respond

(***************************************************************************)
(* PART 4b.  run_cmd (server_tools.py:33-67)                               *)
(*                                                                         *)
(* The child process runs beside run_cmd: it may exit at any moment, and   *)
(* proc.returncode changes only when proc.wait() reaps it.                 *)
(***************************************************************************)

\* the largest magnitude of the timeout argument, in seconds
MaxTimeout == 2

\* the timeout argument: None, or a number of seconds of either sign
NoTimeout == [none |-> TRUE, n |-> 0]
Seconds(n) == [none |-> FALSE, n |-> n]
Timeouts ==
    {NoTimeout} \cup {Seconds(n) : n \in 1..MaxTimeout}
                \cup {Seconds(0 - n) : n \in 1..MaxTimeout}

abs(n) == IF n < 0 THEN 0 - n ELSE n

\* exit codes of the child: success, failures, killed by a signal
ExitCodes == {0, 1, 2, 0 - 9}

\* the values of `result` and proc.returncode: None or an exit code
NoCode == [none |-> TRUE, n |-> 0]
Code(n) == [none |-> FALSE, n |-> n]

TimeoutExpired == [exc |-> "TimeoutExpired", arg |-> NoCode]
RunError(code) == [exc |-> "ValueError", arg |-> code]
ReturnedProc == [exc |-> "returned proc", arg |-> NoCode]
Running == [exc |-> "none", arg |-> NoCode]

RunInit ==
    /\ timeout \in Timeouts
    /\ proc = [alive |-> FALSE, status |-> NoCode, returncode |-> NoCode]
    /\ elapsed = 0
    /\ run_pc = "popen"
    /\ run_result = NoCode
    /\ run_outcome = Running

\* the state of a run that does not call run_cmd
RunUnused ==
    /\ timeout = NoTimeout
    /\ proc = [alive |-> FALSE, status |-> NoCode, returncode |-> NoCode]
    /\ elapsed = 0
    /\ run_pc = "unused"
    /\ run_result = NoCode
    /\ run_outcome = Running

\* line 53: proc = subprocess.Popen(cmd, ...); lines 54, 62-63: without a
\* timeout the result is proc.returncode right away
Popen ==
    /\ run_pc = "popen"
    /\ proc' = [proc EXCEPT !.alive = TRUE]
    /\ IF timeout.none
       THEN /\ run_result' = proc.returncode
            /\ run_pc' = "check"
       ELSE /\ UNCHANGED run_result
            /\ run_pc' = "wait"
    /\ UNCHANGED <<timeout, elapsed, run_outcome>>
    /\ UNCHANGED other_than_run

\* the child exits on its own with some exit code
ProcExit ==
    /\ proc.alive
    /\ run_pc \in {"wait", "expired", "check"}
    /\ \E code \in ExitCodes : proc' = [proc EXCEPT !.alive = FALSE, !.status = Code(code)]
    /\ UNCHANGED <<timeout, elapsed, run_pc, run_result, run_outcome>>
    /\ UNCHANGED other_than_run

\* a second passes while proc.wait() blocks
Tick ==
    /\ run_pc = "wait"
    /\ proc.alive
    /\ elapsed < abs(timeout.n)
    /\ elapsed' = elapsed + 1
    /\ UNCHANGED <<timeout, proc, run_pc, run_result, run_outcome>>
    /\ UNCHANGED other_than_run

\* line 56: proc.wait(timeout=abs(timeout)) returns the exit code of a
\* child that has exited and stores it in proc.returncode
WaitReturns ==
    /\ run_pc = "wait"
    /\ ~proc.alive
    /\ proc' = [proc EXCEPT !.returncode = proc.status]
    /\ run_result' = proc.status
    /\ run_pc' = "check"
    /\ UNCHANGED <<timeout, elapsed, run_outcome>>
    /\ UNCHANGED other_than_run

\* variant: a timeout is tolerated when the argument is positive
WaitExpiresSignSwapped ==
    /\ run_pc = "wait"
    /\ proc.alive
    /\ elapsed = abs(timeout.n)
    /\ IF timeout.n > 0
       THEN /\ run_pc' = "expired"
            /\ UNCHANGED run_outcome
       ELSE /\ run_pc' = "done"
            /\ run_outcome' = TimeoutExpired
    /\ UNCHANGED <<timeout, proc, elapsed, run_result>>
    /\ UNCHANGED other_than_run

\* lines 57-61: proc.wait raises TimeoutExpired on a child that still runs
\* when the time is up; a negative timeout argument catches it
WaitExpires ==
    /\ run_pc = "wait"
    /\ proc.alive
    /\ elapsed = abs(timeout.n)
    /\ IF timeout.n < 0
       THEN /\ run_pc' = "expired"
            /\ UNCHANGED run_outcome
       ELSE /\ run_pc' = "done"
            /\ run_outcome' = TimeoutExpired
    /\ UNCHANGED <<timeout, proc, elapsed, run_result>>
    /\ UNCHANGED other_than_run

\* line 59: result = proc.returncode  # timeout is OK
ReadReturncode ==
    /\ run_pc = "expired"
    /\ run_result' = proc.returncode
    /\ run_pc' = "check"
    /\ UNCHANGED <<timeout, proc, elapsed, run_outcome>>
    /\ UNCHANGED other_than_run

\* lines 64-67: a truthy result raises ValueError naming it, else return proc
CheckResult ==
    /\ run_pc = "check"
    /\ run_outcome' = IF ~run_result.none /\ run_result.n # 0
                      THEN RunError(run_result) ELSE ReturnedProc
    /\ run_pc' = "done"
    /\ UNCHANGED <<timeout, proc, elapsed, run_result>>
    /\ UNCHANGED other_than_run

RunNext ==
    \/ Popen
    \/ ProcExit
    \/ Tick
    \/ WaitReturns
    \/ WaitExpires
    \/ ReadReturncode
    \/ CheckResult

(***************************************************************************)
(* PART 4c.  The specifications                                            *)
(***************************************************************************)

LockSpecInit == LockInit /\ AdapterUnused /\ WatchInit /\ RunUnused

LockSpec == LockSpecInit /\ [][LockNext]_vars

AdapterSpecInit == AdapterInit /\ LockInit /\ WatchInit /\ RunUnused

AdapterSpec == AdapterSpecInit /\ [][AdapterNext]_vars

\* sequences of calls on one adapter, with the record `earlier` of the
\* calls that went before; AdapterSpec leaves that record as it starts
SequenceSpecInit == AdapterInit /\ LockInit /\ WatchInit /\ RunUnused

SequenceSpec == SequenceSpecInit /\ [][SequenceNext]_vars

WatchSpecInit == WatchInit /\ LockInit /\ AdapterUnused /\ RunUnused

WatchSpec == WatchSpecInit /\ [][WatchNext]_vars

RunSpecInit == RunInit /\ LockInit /\ AdapterUnused /\ WatchInit

RunSpec == RunSpecInit /\ [][RunNext]_vars

(***************************************************************************)
(* PART 5.  The claims                                                     *)
(***************************************************************************)

\* a finished exchange: the handler has answered the last request
Answered == phase = "answered"

\* C1: of two callers entering LockFile on the same path concurrently, at
\* most one is inside the locked scope at any time
C1_MutualExclusion == Cardinality({t \in Callers : pc[t] = "body"}) <= 1

\* C2: a scope that was entered ends with the body's own outcome: release
\* does not fail, and an exception of the body is what the caller sees
C2_ScopeExitsWithBodyOutcome ==
    \A t \in Callers : pc[t] = "done" => outcome[t] = ExitOutcome(t)

\* C3: entering LockFile while the marker exists fails with
\* FileExistsError(lockpath), readable marker or not; the failed acquisition
\* leaves the marker as it is and never reaches the body
C3_ExistingMarkerRefused ==
    [][\A t \in Callers :
        /\ (attempts'[t] # attempts[t] /\ lockfile.exists)
              => (pc'[t] = "enter_read" /\ lockfile' = lockfile)
        /\ (pc[t] = "enter_read" /\ pc'[t] # "enter_read")
              => /\ pc'[t] = "failed"
                 /\ outcome'[t] = FileExistsError(lockpath)
                 /\ lockfile' = lockfile]_vars

\* C3 witness: an acquisition failed on a marker it could not parse, and
\* the marker is still there
C3_Witness ==
    \E t \in Callers :
        /\ pc[t] = "failed"
        /\ outcome[t] = FileExistsError(lockpath)
        /\ info[t].state = "unknown"
        /\ lockfile.exists

C5_GobbledOptionGetsInjected ==
    Answered =>
        \A i \in DOMAIN tweaks :
            (/\ tweaks[i].arg_name \in DOMAIN gobbled_opts
             /\ \A j \in DOMAIN tweaks : tweaks[j].arg_name = tweaks[i].arg_name => j <= i) =>
                /\ response # Raise("AttributeError", tweaks[i].arg_name)
                /\ \A c \in DOMAIN callback_calls :
                    /\ tweaks[i].arg_name \in DOMAIN callback_calls[c].kwargs
                    /\ callback_calls[c].kwargs[tweaks[i].arg_name]
                            = BufferV(i, tweaks[i].mode)

\* an option some tweak claims, or one the skip pattern matches
ClaimedByTweak(name) == \E i \in DOMAIN tweaks : tweaks[i].arg_name = name
MatchedBySkip(name) == skip_opt_re # "" /\ re_search(skip_opt_re, name)

\* C6: the field set holds no field for an option a tweak claims nor for
\* one the skip pattern matches, so no such option reports an error
C6_NoFieldForGobbledOrSkipped ==
    Answered =>
        \A i \in DOMAIN clickCmd :
            (ClaimedByTweak(clickCmd[i].name) \/ MatchedBySkip(clickCmd[i].name))
                => clickCmd[i].name \notin DOMAIN form

\* C6 witness: a required option was gobbled, the form was built without
\* it, validated and processed
C6_Witness ==
    /\ Answered
    /\ clickCmd = export_cmd
    /\ "datafile" \in DOMAIN gobbled_opts
    /\ DOMAIN form = {"title"}
    /\ response.kind = "result"

\* C7: an option with multiple set whose field name was submitted k times
\* reaches the callback as the k submitted values in submission order
C7_MultipleKeepsEverySubmittedValue ==
    (adapter = "wtf" /\ Answered /\ callback_calls # <<>>) =>
        \A n \in DOMAIN form :
            (OptOf(n).multiple /\ n \in DOMAIN request.formdata) =>
                callback_calls[1].kwargs[n] =
                    ListV([i \in DOMAIN request.formdata[n] |->
                                StrV(request.formdata[n][i])])

\* C8: ClickToGeneric.handle_request(opts) invokes the callback once with
\* one keyword per option, the value of opts where it is not None and the
\* declared default otherwise, and returns the callback's result
C8_GenericCallsWithOptsOrDefaults ==
    (adapter = "generic" /\ Answered /\ skip_opt_re = "" /\ tweaks = <<>>
        /\ Generic_FirstUnmapped = 0) =>
        /\ Len(callback_calls) = 1
        /\ callback_calls[1].kwargs =
              [n \in OptNames |->
                  IF n \in DOMAIN request.opts /\ request.opts[n] # NoneV
                  THEN request.opts[n] ELSE OptOf(n).default]
        /\ ~callback_calls[1].outcome.raised
              => response = Result(callback_calls[1].outcome.value)

\* C9: an option the skip pattern matches has no field and still reaches
\* the callback with its declared default; process() does not fail on it
C9_SkippedOptionGetsDefault ==
    Answered =>
        \A i \in DOMAIN clickCmd :
            (/\ MatchedBySkip(clickCmd[i].name)
             /\ ~ClaimedByTweak(clickCmd[i].name)
             /\ clickCmd[i].name \notin DOMAIN request.opts) =>
                /\ response # Raise("AttributeError", clickCmd[i].name)
                /\ \A c \in DOMAIN callback_calls :
                    /\ clickCmd[i].name \in DOMAIN callback_calls[c].kwargs
                    /\ callback_calls[c].kwargs[clickCmd[i].name] = clickCmd[i].default

\* C10: an exception the callback raises is what handle_request raises, the
\* same exception, in both adapters
C10_CallbackExceptionPropagates ==
    Answered =>
        \A c \in DOMAIN callback_calls :
            callback_calls[c].outcome.raised =>
                response = Raise(callback_calls[c].outcome.exc, "callback")

\* C10 witness: the callback raised KeyError and the caller got it
C10_Witness ==
    /\ Answered
    /\ Len(callback_calls) = 1
    /\ callback_calls[1].outcome.raised
    /\ callback_calls[1].outcome.exc = "KeyError"
    /\ response = Raise("KeyError", "callback")

\* the steps of one kind among what the last handle_request did
EventsOf(ev) == SelectSeq(trace, LAMBDA e : e.ev = ev)
\* process() ran the callback and the callback returned
CallbackReturned == callback_calls # <<>> /\ ~callback_calls[1].outcome.raised

WatchRecordsOf(c) == SelectSeq(w_log, LAMBDA r : r.watched # "" /\ r.w_uuid = <<c, 1>>)

\* C12: every call of a watched function logs one start record and then
\* exactly one end record, status ok when the function returned, status
\* error with the exception when it raised, and the caller gets the
\* function's own result or exception
C12_EveryCallLogsStartAndEnd ==
    \A c \in DOMAIN w_outcome :
        /\ Len(WatchRecordsOf(c)) = 2
        /\ WatchRecordsOf(c)[1].watched = "start"
        /\ WatchRecordsOf(c)[2].watched = "end"
        /\ WatchRecordsOf(c)[2].status = IF w_outcome[c].did.raised THEN "error" ELSE "ok"
        /\ w_outcome[c].did.raised => WatchRecordsOf(c)[2].w_error = w_outcome[c].did.exc
        /\ w_outcome[c].got = w_outcome[c].did

\* the types click_opt_to_wtf_field has a field for
Representable == {"INT", "STRING", "DATETIME", "FILE_R", "CHOICE"}

\* C13: for every option whose type is not integer, string, date-time,
\* read-mode file or choice, click_opt_to_wtf_field fails with TypeError
\* naming the option's type, never with another error
C13_UnsupportedTypeIsTypeError ==
    (adapter = "wtf" /\ Answered) =>
        \A k \in DOMAIN trace :
            (trace[k].ev = "field" /\ OptOf(trace[k].name).type \notin Representable) =>
                /\ trace[k].out = ExcV("TypeError")
                /\ response = Raise("TypeError", OptOf(trace[k].name).type)

\* proc.wait raised TimeoutExpired: run_cmd had a timeout and never reaped
\* the child
TimeoutFired == ~timeout.none /\ proc.returncode.none

\* C14: when the child still runs as the timeout fires, run_cmd returns
\* the process handle for a negative timeout and raises the timeout error
\* for a positive one; when the child exits with a non-zero code before the
\* timeout fires, run_cmd raises an error naming the code, for either sign
C14_RunCmdTimeoutAndExitCode ==
    run_pc = "done" =>
        /\ (TimeoutFired /\ timeout.n < 0) => run_outcome = ReturnedProc
        /\ (TimeoutFired /\ timeout.n > 0) => run_outcome = TimeoutExpired
        /\ (~timeout.none /\ ~proc.returncode.none /\ proc.returncode.n # 0)
                => run_outcome = RunError(proc.returncode)

\* C14 witness: a negative timeout fired on a running child, which then
\* died of a signal, and run_cmd returned the handle
C14_Witness ==
    /\ run_pc = "done"
    /\ timeout.n < 0
    /\ TimeoutFired
    /\ ~proc.alive /\ proc.status = Code(0 - 9)
    /\ run_outcome = ReturnedProc

\* C15: a required date-time field reports the parse error, not the
\* required-field error, on non-empty text that is no date-time, the
\* required-field error on empty or absent input, and on text that parses
\* no error, with the parsed date-time as its data
C15_DateTimeParseErrorNotRequired ==
    (adapter = "wtf" /\ Answered /\ request.method = "POST") =>
        \A n \in DOMAIN form :
            (form[n].cls = "DateTimeFieldTweak" /\ "DataRequired" \in form[n].validators) =>
                LET text == IF n \in DOMAIN request.formdata
                            THEN Join(request.formdata[n]) ELSE <<>>
                IN /\ (text # <<>> /\ ~IsIsoDate(text)) => form[n].errors = {"ParserError"}
                   /\ text = <<>> => form[n].errors = {"* required field"}
                   /\ IsIsoDate(text) =>
                        (form[n].errors = {} /\ form[n].data.kind = "datetime")

\* C16: a field's default is the value of its name in the URL when the
\* request is a GET, fill_get_from_url is set and the URL has that name,
\* and the option's declared default in every other case; gobbled and
\* skipped options have no field; the validators are those of the option
C16_PrefillOnlyOnGetWithFlag ==
    (adapter = "wtf" /\ Answered) =>
        /\ \A n \in DOMAIN form :
            /\ ~ClaimedByTweak(n) /\ ~MatchedBySkip(n)
            /\ form[n].default =
                    IF request.method = "GET" /\ fill_get_from_url /\ n \in DOMAIN request.args
                    THEN StrV(request.args[n]) ELSE OptOf(n).default
            /\ form[n].validators = IF OptOf(n).required THEN {"DataRequired"} ELSE {}
        /\ \A c \in DOMAIN callback_calls : \A n \in OptNames :
            (n \notin DOMAIN form /\ ~ClaimedByTweak(n))
                => callback_calls[c].kwargs[n] = OptOf(n).default

\* C16 witness: a GET with count in its URL on an adapter with the flag
\* set: the field count has the URL's value as default, the field text
\* keeps the declared default
C16_Witness ==
    /\ adapter = "wtf" /\ Answered
    /\ fill_get_from_url /\ request.method = "GET"
    /\ DOMAIN request.args = {"count"}
    /\ DOMAIN form = {"count", "text"}
    /\ form["count"].default = StrV(T_3)
    /\ form["count"].data = IntV(3)
    /\ form["text"].default = StrV(T_hi)

C18_WrappedCallbackRunsUninstrumented ==
    (Answered /\ callback_calls # <<>> /\ callback > 0) =>
        /\ Len(EventsOf("call")) = 1
        /\ EventsOf("watch") = <<>>

\* C19: the buffer a FileResCallback creates in pad_kwargs is closed by
\* the time the process() call that created it ends, however it ends
C19_InjectedBufferClosedWhenProcessEnds ==
    Answered =>
        \A k \in DOMAIN trace :
            trace[k].ev = "pad" => buffers[trace[k].i].closed

\* the type mapper of the adapter in use
TypeMapper(opt) ==
    IF adapter = "wtf" THEN click_opt_to_wtf_field(opt) ELSE click_opt_to_field(opt)
\* the places in clickCmd of the options whose type has no field
Unmapped == {i \in DOMAIN clickCmd : TypeMapper(clickCmd[i]) \in MapperErrors}
Hidden(i) == ClaimedByTweak(clickCmd[i].name) \/ MatchedBySkip(clickCmd[i].name)

\* C20: an option whose type has no field makes handle_request fail while
\* the fields are built, before any inject step and before the callback;
\* the type mapper is never applied to an option the skip pattern matches
\* or a tweak gobbles, and with every such option hidden so the field set
\* is built
C20_UnmappedTypeFailsAtFieldBuild ==
    Answered =>
        /\ (\E i \in Unmapped : ~Hidden(i)) =>
                /\ response.kind = "raise" /\ response.exc \in MapperErrors
                /\ callback_calls = <<>>
                /\ \A k \in DOMAIN trace : trace[k].ev = "field"
                /\ trace[Len(trace)].out.kind = "exc"
        /\ \A i \in DOMAIN clickCmd :
                Hidden(i) => \A k \in DOMAIN trace :
                                ~(trace[k].ev = "field" /\ trace[k].name = clickCmd[i].name)
        /\ (\A i \in Unmapped : Hidden(i)) =>
                /\ Len(EventsOf("field")) = Cardinality({i \in DOMAIN clickCmd : ~Hidden(i)})
                /\ \A k \in DOMAIN trace : trace[k].ev = "field" => trace[k].out.kind = "object"

\* C20 witness: a tweak is configured, the option level has a type without
\* a field, and handle_request raised right after the mapper did
C20_Witness ==
    /\ Answered
    /\ tweaks # <<>>
    /\ clickCmd = custom_cmd
    /\ response.kind = "raise" /\ response.exc \in MapperErrors
    /\ trace # <<>> /\ trace[Len(trace)].ev = "field"
    /\ trace[Len(trace)].name = "level"
    /\ callback_calls = <<>>

\* handle_request runs in this step
Handles == phase = "pending" /\ phase' = "answered"
\* what the field n of a form shows before any input is read: the default
\* of a WTForms field, the data of a GenericField
Compiled(frm, n) == IF adapter = "wtf" THEN frm[n].default ELSE frm[n].data

\* C21: over any sequence of handle_request calls on one adapter, the
\* option descriptors are never modified, every field of a call holds the
\* value that very call supplies for it (opts, or URL prefill) and the
\* option's declared default when the call supplies none, and the callback
\* gets the declared default of an option with a field the call gave no
\* input for: nothing an earlier call supplied is seen again
C21_NothingCarriedOverBetweenCalls ==
    [][/\ clickCmd' = clickCmd
       /\ Handles =>
            /\ \A n \in DOMAIN form' :
                    Compiled(form', n) = IF n \in DOMAIN Overrides(request)
                                        THEN Overrides(request)[n]
                                        ELSE OptOf(n).default
            /\ \A c \in DOMAIN callback_calls' : \A n \in DOMAIN form' :
                    (/\ ~OptOf(n).multiple
                     /\ n \notin DOMAIN request.opts
                     /\ n \notin DOMAIN request.formdata)
                        => callback_calls'[c].kwargs[n] = OptOf(n).default]_vars

\* C21 witness: the Generic Adapter was given a value for count in an
\* earlier call and none in this one, and the callback got the default
C21_Witness ==
    /\ adapter = "generic" /\ Answered
    /\ "count" \in earlier.supplied
    /\ "count" \in DOMAIN form
    /\ "count" \notin DOMAIN request.opts
    /\ callback_calls # <<>>
    /\ callback_calls[1].kwargs["count"] = OptOf("count").default
    /\ form["count"].data = OptOf("count").default

\* the names some call of tweak.gobble in the log answered yes to
ClaimedInLog(log) == {log[k].name : k \in {j \in DOMAIN log : log[j].reason}}

\* C22: gobble(name) asks the tweaks in configured order and stops at the
\* first that claims the name; the names recorded in gobbled_opts are those
\* a tweak claimed, each with the answer of that first tweak, a name no
\* tweak claims is never recorded, and building the field set again leaves
\* the registry as it was
C22_FirstClaimingTweakWins ==
    [][Handles =>
        /\ \A k \in DOMAIN gobble_log' :
            /\ gobble_log'[k].i =
                    IF k = 1 THEN 1
                    ELSE IF gobble_log'[k - 1].reason
                            \/ gobble_log'[k - 1].i = Len(tweaks)
                         THEN 1 ELSE gobble_log'[k - 1].i + 1
            /\ gobble_log'[k].i > 1 => gobble_log'[k].name = gobble_log'[k - 1].name
            /\ gobble_log'[k].reason =>
                    gobbled_opts'[gobble_log'[k].name] = gobble_log'[k].reason
        /\ DOMAIN gobbled_opts' = ClaimedInLog(gobble_log')
        /\ \A n \in DOMAIN gobbled_opts' : ClaimedByTweak(n)
        /\ earlier.built => gobbled_opts' = gobbled_opts]_vars

\* C22 witness: two tweaks claim text; in a second build of the field set
\* only the first was asked, and text is recorded as before
C22_Witness ==
    /\ Answered
    /\ earlier.built
    /\ Len(tweaks) = 2
    /\ gobble_log # <<>>
    /\ \A k \in DOMAIN gobble_log :
            gobble_log[k].name = "text" => (gobble_log[k].i = 1 /\ gobble_log[k].reason)
    /\ \E k \in DOMAIN gobble_log : gobble_log[k].name = "text"
    /\ \E k \in DOMAIN gobble_log : gobble_log[k].name # "text" /\ gobble_log[k].i = 2
    /\ DOMAIN gobbled_opts = {"text"}

\* handle_request got as far as calling process(form): the form validated
\* on submit (ClickToWTF), form(opts) returned a form (ClickToGeneric)
ProcessCalled ==
    /\ Answered
    /\ IF adapter = "wtf" THEN callback_calls # <<>>
       ELSE Generic_FirstUnmapped = 0 /\ Generic_unknown(request.opts) = {}
\* the places in the trace of the steps the callback's invocation made
CallbackSteps == {k \in DOMAIN trace : trace[k].ev \in {"watch", "log", "call"}}

\* C23: in every process() call every tweak's inject step runs exactly
\* once, in configured order, after the keyword arguments were assembled
\* from fields and defaults and before the callback starts, whether or not
\* the tweak gobbled an option; of two tweaks injecting under one name the
\* callback gets the value of the later
C23_EveryTweakInjectsOnceInOrder ==
    ProcessCalled =>
        /\ Len(EventsOf("pad")) = Len(tweaks)
        /\ \A k \in DOMAIN EventsOf("pad") :
            /\ EventsOf("pad")[k].i = k
            /\ EventsOf("pad")[k].name = tweaks[k].arg_name
        /\ \A k \in DOMAIN trace :
            /\ trace[k].ev = "pad" => \A j \in CallbackSteps : k < j
            /\ trace[k].ev = "field" =>
                    \A j \in DOMAIN trace : trace[j].ev = "pad" => k < j
        /\ \A c \in DOMAIN callback_calls :
            /\ DOMAIN callback_calls[c].kwargs = OptNames
            /\ \A n \in OptNames :
                    ~ClaimedByTweak(n) => callback_calls[c].kwargs[n].kind # "buffer"
            /\ \A k \in DOMAIN tweaks :
                    (\A j \in DOMAIN tweaks :
                        tweaks[j].arg_name = tweaks[k].arg_name => j <= k)
                    => callback_calls[c].kwargs[tweaks[k].arg_name]
                            = BufferV(k, tweaks[k].mode)

====
